---- MODULE Spec2Model ----
(***************************************************************************)
(* A model of the Synthizer audio graph runtime: the biquad filter's       *)
(* crossfading (src/src/biquad.cpp), the property dispatcher generated by  *)
(* the property implementation header (src/unnamed/part_002), the Source's *)
(* generator list (src/src/biquad.cpp, second half) and the Context's      *)
(* deferred deletion, property ring and command queue                      *)
(* (src/unnamed/part_003).  context.cpp is not among the sources: the      *)
(* bodies of generateAudio, shutdown, enqueueDeletionRecord and the        *)
(* property setters are modelled from sections 4.C, 4.D and 4.I of the     *)
(* specification.                                                          *)
(***************************************************************************)
EXTENDS Integers, Sequences, FiniteSets, TLC

VARIABLES
    \* ---- ConcreteBiquadFilter (src/src/biquad.cpp:24-27)
    filters,        \* filters[0], filters[1]: the parameters of each IIR filter
    crossfade,      \* bool crossfade
    active,         \* unsigned char active
    bq_out,         \* the caller's out buffer after the last processBlock
    bq_hist,        \* history of the filter since the last configure
    \* ---- the property dispatcher (src/unnamed/part_002)
    vp_call,        \* the dispatcher call under way: class, id, value
    vp_state,       \* the property values of the object it is made on
    vp_result,      \* its outcome, and the object's state when it began
    \* ---- Context (src/unnamed/part_003:285-327)
    headless,            \* bool headless
    running,             \* std::atomic<int> running
    block_time,          \* unsigned int block_time
    property_ring,       \* PropertyRing<1024> property_ring
    pending_invokables,  \* ConcurrentQueue<Invokable *>: one FIFO a producer
    pending_deletes,     \* ConcurrentQueue<DeletionRecord>
    delete_directly,     \* std::atomic<int> delete_directly
    deletes_in_progress, \* std::atomic<int> deletes_in_progress
    apc,                 \* where generateAudio is in the current block
    sd,                  \* where Context::shutdown is
    rel,                 \* per created object: where its deleter is, its fate
    \* ---- the objects of the graph
    props,               \* per object, the value of each of its properties
    generators,          \* Source::generators: a vector of weak references
    gen_alive,           \* the generators that have not been destroyed
    paused,              \* whether the source's pausable state is paused
    \* ---- the external threads, and what has been observed
    thr,                 \* per external thread: the call it is in, its result
    wr,                  \* the last write submitted to the gain, and its age
    ord,                 \* the order in which each thread's calls took effect
    blk                  \* what the audio thread has done in this block

bqvars == <<filters, crossfade, active, bq_out, bq_hist>>
vpvars == <<vp_call, vp_state, vp_result>>
delvars == <<pending_deletes, delete_directly, deletes_in_progress, sd, rel>>
pipevars == <<property_ring, pending_invokables, props, generators,
              gen_alive, paused, thr, wr, ord, blk>>
ctxvars == <<headless, running, block_time, apc, delvars, pipevars>>
vars == <<bqvars, vpvars, ctxvars>>

(***************************************************************************)
(* Bounds of the model.                                                    *)
(***************************************************************************)
\* frames of one block that are modelled (config::BLOCK_SIZE frames in the code)
BlockLen == 2
\* filter parameter sets other than designWire()
NumDefs == 2
\* largest magnitude of an int or double property value that is tried
MaxVal == 3

Min(a, b) == IF a < b THEN a ELSE b

(***************************************************************************)
(* ConcreteBiquadFilter<1>.  A sample is an integer number of              *)
(* 1/BlockLen units, so that the crossfade weights i/BLOCK_SIZE stay       *)
(* integral.  An IIR filter is abstracted to its parameter set d, and its  *)
(* tick to the memoryless response d * x; designWire() is the set 1.       *)
(***************************************************************************)
designWire == 1
BiquadDefs == 1..(NumDefs + 1)
Frames == 1..BlockLen
\* blocks the caller may pass: every frame silent or one full-scale unit
SampleVals == {0, BlockLen}
Blocks == [Frames -> SampleVals]

\* IIRFilter::tick(in, out): the response of the filter with parameters d
tick(d, x) == d * x

\* processBlock's dispatch on (add, crossfade): the template instance
\* <<ADD, CROSSFADING>> of processBlockImpl that runs (biquad.cpp:51-63)
processBlockDispatch(add, cf) ==
    IF add
    THEN (IF cf THEN <<TRUE, TRUE>> ELSE <<TRUE, FALSE>>)
    ELSE (IF cf THEN <<FALSE, TRUE>> ELSE <<FALSE, TRUE>>)

\* One frame of processBlockImpl<ADD, CROSSFADE> (biquad.cpp:82-113); i counts
\* from 0.  tmp starts at 0; the active filter ticks into out_frame, which is
\* the caller's frame when ADD or CROSSFADE and tmp otherwise.
processFrame(ADD, CROSSFADE, i, x, out0) ==
    LET toOut  == ADD \/ CROSSFADE
        actOut == tick(filters[active], x)
        out1   == IF toOut THEN actOut ELSE out0
        tmp1   == IF toOut THEN 0 ELSE actOut
        cf_tmp == tick(filters[1 - active], x)
        \* w2 = i / BLOCK_SIZE, w1 = 1 - w2
        tmp2   == IF CROSSFADE
                  THEN (cf_tmp * (BlockLen - i) + tmp1 * i) \div BlockLen
                  ELSE tmp1
    IN  IF CROSSFADE \/ ADD
        THEN (IF ADD THEN out1 + tmp2 ELSE tmp2)
        ELSE out1

processBlockImpl(ADD, CROSSFADE, in, out) ==
    [i \in Frames |-> processFrame(ADD, CROSSFADE, i - 1, in[i], out[i])]

\* the filters processBlockImpl<_, CROSSFADE> ticks (biquad.cpp:91, 97)
tickedBy(CROSSFADE) == IF CROSSFADE THEN {active, 1 - active} ELSE {active}

\* a block of silent frames
silence == [i \in Frames |-> 0]

\* what is remembered of a configure: the slot it wrote and the slot that
\* was active, the parameters it was given, and how many configures there
\* were since the last processBlock (counted up to 2)
configured(def) ==
    [configured |-> TRUE, calls |-> 0,
     slot |-> 1 - active, old |-> active,
     impl |-> <<>>, ticked |-> {}, cf |-> FALSE,
     nconf |-> IF bq_hist.calls = 0 THEN Min(bq_hist.nconf + 1, 2) ELSE 1,
     def |-> def, add |-> FALSE, in |-> silence, out |-> silence]

\* configure writing the slot of the active filter
configure_ActiveSlot(def) ==
    /\ filters' = [filters EXCEPT ![active] = def]
    /\ crossfade' = TRUE
    /\ bq_hist' = configured(def)
    /\ UNCHANGED <<active, bq_out, vpvars, ctxvars>>

\* configure(config) (biquad.cpp:36-47)
configure(def) ==
    /\ filters' = [filters EXCEPT ![1 - active] = def]
    /\ crossfade' = TRUE
    /\ bq_hist' = configured(def)
    /\ UNCHANGED <<active, bq_out, vpvars, ctxvars>>

\* processBlock(in, out, add) (biquad.cpp:49-73).  Every branch of lines
\* 51-63 returns, so lines 65-72 (clear crossfade, flip active) never run.
processBlock(in, out, add) ==
    LET inst == processBlockDispatch(add, crossfade) IN
    /\ bq_out' = processBlockImpl(inst[1], inst[2], in, out)
    /\ bq_hist' = [bq_hist EXCEPT !.calls = Min(@ + 1, 2),
                                  !.impl = inst,
                                  !.ticked = tickedBy(inst[2]),
                                  !.cf = crossfade,
                                  !.add = add, !.in = in, !.out = out]
    /\ UNCHANGED <<filters, crossfade, active, vpvars, ctxvars>>

Configure == \E def \in BiquadDefs : configure(def)

ProcessBlock == \E in \in Blocks, out \in Blocks, add \in BOOLEAN :
                    processBlock(in, out, add)

(***************************************************************************)
(* The property dispatcher (src/unnamed/part_002).  A PropertyValue is a   *)
(* record [tag, v]: the variant's alternative and its payload.  Doubles    *)
(* are modelled by integers; an object reference is 0 (nullptr) or the     *)
(* number of an object; an array is the number of its contents.            *)
(***************************************************************************)
nullptr == 0
\* std::numeric_limits: beyond every value that is tried
P_INT_MIN == 0 - (MaxVal + 1)
P_INT_MAX == MaxVal + 1
P_DOUBLE_MIN == 0 - (MaxVal + 1)
P_DOUBLE_MAX == MaxVal + 1

\* the objects a reference may name, each with its dynamic class
ObjectClass == <<"Buffer", "BufferGenerator", "DirectSource">>
ObjectRefs == {nullptr} \cup DOMAIN ObjectClass

\* the immediate base of each class, up to CExposable
BaseOf(cls) ==
    CASE cls = "BufferGenerator" -> "Generator"
      [] cls = "DirectSource"    -> "Source"
      [] cls = "Generator"       -> "BaseObject"
      [] cls = "Source"          -> "BaseObject"
      [] cls = "Buffer"          -> "CExposable"
      [] cls = "Context"         -> "BaseObject"
      [] cls = "BaseObject"      -> "CExposable"
      [] OTHER                   -> "none"

RECURSIVE IsA(_, _)
IsA(cls, target) ==
    IF cls = target THEN TRUE
    ELSE IF BaseOf(cls) = "none" THEN FALSE
    ELSE IsA(BaseOf(cls), target)

\* std::dynamic_pointer_cast<cls>(y): y itself, or nullptr when y's dynamic
\* class is not cls or derived from it
dynamic_pointer_cast(cls, y) ==
    IF y # nullptr /\ IsA(ObjectClass[y], cls) THEN y ELSE nullptr

\* PROPERTY_LIST of each class that implements properties: the INT_P,
\* DOUBLE_P, OBJECT_P, DOUBLE3_P and DOUBLE6_P entries (p, min, max | cls)
PROPERTY_LIST(cls) ==
    CASE cls = "Source" ->
           {[p |-> "SYZ_P_GAIN", kind |-> "double", min |-> 0,
             max |-> P_DOUBLE_MAX, cls |-> "none"]}
      [] cls = "Generator" ->
           {[p |-> "SYZ_P_PITCH_BEND", kind |-> "double", min |-> 0,
             max |-> 2, cls |-> "none"]}
      [] cls = "BufferGenerator" ->
           {[p |-> "SYZ_P_BUFFER", kind |-> "object", min |-> 0,
             max |-> 0, cls |-> "Buffer"],
            [p |-> "SYZ_P_LOOPING", kind |-> "int", min |-> 0,
             max |-> 1, cls |-> "none"]}
      [] cls = "Context" ->
           {[p |-> "SYZ_P_POSITION", kind |-> "double3", min |-> 0,
             max |-> 0, cls |-> "none"],
            [p |-> "SYZ_P_ORIENTATION", kind |-> "double6", min |-> 0,
             max |-> 0, cls |-> "none"]}
      [] OTHER -> {}

PROPERTY_BASE(cls) == BaseOf(cls)
PropertyClasses == {"Source", "Generator", "BufferGenerator", "Context"}
PropertyIds == {"SYZ_P_GAIN", "SYZ_P_PITCH_BEND", "SYZ_P_BUFFER",
                "SYZ_P_LOOPING", "SYZ_P_POSITION", "SYZ_P_ORIENTATION"}

PropertyValues ==
    [tag : {"int", "double"}, v : (0 - MaxVal)..MaxVal]
    \cup [tag : {"object"}, v : ObjectRefs]
    \cup [tag : {"double3", "double6"}, v : {0, 1}]

\* the range check with the upper bound taken as exclusive
checker_ExclusiveMax(d, x) ==
    CASE d.kind \in {"int", "double"} ->
           IF x < d.min \/ x >= d.max THEN "ERange" ELSE "ok"
      [] d.kind = "object" ->
           IF x = nullptr THEN "ok"
           ELSE IF dynamic_pointer_cast(d.cls, x) = nullptr
                THEN "EHandleType" ELSE "ok"
      [] OTHER -> "ok"

\* the range check with the lower bound left out
checker_NoMin(d, x) ==
    CASE d.kind \in {"int", "double"} ->
           IF x > d.max THEN "ERange" ELSE "ok"
      [] d.kind = "object" ->
           IF x = nullptr THEN "ok"
           ELSE IF dynamic_pointer_cast(d.cls, x) = nullptr
                THEN "EHandleType" ELSE "ok"
      [] OTHER -> "ok"

\* the checker lambdas of INT_P, DOUBLE_P, OBJECT_P, DOUBLE3_P, DOUBLE6_P
\* (part_002:127-131)
checker(d, x) ==
    CASE d.kind \in {"int", "double"} ->
           IF x < d.min \/ x > d.max THEN "ERange" ELSE "ok"
      [] d.kind = "object" ->
           IF x = nullptr THEN "ok"
           ELSE IF dynamic_pointer_cast(d.cls, x) = nullptr
                THEN "EHandleType" ELSE "ok"
      [] OTHER -> "ok"

\* VALIDATE_(type, checker, p, ...) (part_002:63-69): std::get_if<type>
\* yields nullptr when the variant holds another alternative
VALIDATE_(d, value) ==
    IF value.tag # d.kind THEN "EPropertyType" ELSE checker(d, value.v)

\* BaseObject::validateProperty, where the chain of default: cases ends
BaseObject_validateProperty(property, value) == "EPropertyDoesNotExist"

\* PROPERTY_CLASS::validateProperty (part_002:133-140): the switch over
\* PROPERTY_LIST, with the base class's method as the default
RECURSIVE validateProperty(_, _, _)
validateProperty(cls, property, value) ==
    IF \E d \in PROPERTY_LIST(cls) : d.p = property
    THEN VALIDATE_(CHOOSE d \in PROPERTY_LIST(cls) : d.p = property, value)
    ELSE IF cls \in PropertyClasses
         THEN validateProperty(PROPERTY_BASE(cls), property, value)
         ELSE BaseObject_validateProperty(property, value)

\* the values an object of class cls may hold in its properties
RECURSIVE AllProperties(_)
AllProperties(cls) ==
    IF cls \in PropertyClasses
    THEN PROPERTY_LIST(cls) \cup AllProperties(PROPERTY_BASE(cls))
    ELSE {}

\* a call of validateProperty on an object of the class, from outside
ValidateProperty ==
    /\ ~vp_result.done
    /\ vp_result' = [vp_result EXCEPT
                        !.done = TRUE,
                        !.rc = validateProperty(vp_call.cls, vp_call.property,
                                                vp_call.value),
                        !.before = vp_state]
    /\ UNCHANGED <<vp_call, vp_state, bqvars, ctxvars>>

\* BaseObject::hasProperty, where the chain of default: cases ends
BaseObject_hasProperty(property) == FALSE

\* HAS_ (part_002:48-49) under PROPERTY_CLASS::hasProperty (part_002:87-96):
\* a declared id returns true from its case; in the default: case the base
\* class's method is called, its result is not returned, and control reaches
\* the return false after the switch
RECURSIVE hasProperty(_, _)
hasProperty(cls, property) ==
    IF \E d \in PROPERTY_LIST(cls) : d.p = property
    THEN TRUE
    ELSE LET discarded == IF PROPERTY_BASE(cls) \in PropertyClasses
                          THEN hasProperty(PROPERTY_BASE(cls), property)
                          ELSE BaseObject_hasProperty(property)
         IN  FALSE

\* a call of hasProperty on an object of the class, from outside
HasProperty ==
    /\ vp_result.has = "none"
    /\ vp_result' = [vp_result EXCEPT
                        !.has = IF hasProperty(vp_call.cls, vp_call.property)
                                THEN "true" ELSE "false"]
    /\ UNCHANGED <<vp_call, vp_state, bqvars, ctxvars>>

(***************************************************************************)
(* The objects of the graph: one source, its generators, and their         *)
(* property state behind the dispatcher.                                   *)
(***************************************************************************)
Gens == {"g1", "g2"}
Source == "S"
GraphObjs == {Source} \cup Gens
Threads == {"t1", "t2"}

\* the class whose generated dispatcher an object's virtual calls reach
ClassOf(obj) == IF obj = Source THEN "Source" ELSE "BufferGenerator"

NoVal == [tag |-> "none", v |-> 0]

\* the setter left uncalled
SET_Dropped(d, st, value) == st

\* a reference of a class to an object that is not of that class: what an
\* unchecked cast makes, and what no valid reference is
BadRef == 0 - 1

\* std::static_pointer_cast<cls>(y): y as a reference of class cls; the
\* cast is not checked
static_pointer_cast(cls, y) ==
    IF IsA(ObjectClass[y], cls) THEN y ELSE BadRef

\* the conv lambda of OBJECT_P with the test for null left out
conv_NullCast(d, x) ==
    IF d.kind = "object"
    THEN (IF x \in DOMAIN ObjectClass
          THEN static_pointer_cast(d.cls, x) ELSE BadRef)
    ELSE x

\* the conv lambdas of the SET_ entries (part_002:148-152): the payload
\* itself, and for OBJECT_P the reference cast to the declared class, or
\* nullptr for a null reference
conv(d, x) ==
    IF d.kind = "object"
    THEN (IF x # nullptr THEN static_pointer_cast(d.cls, x) ELSE nullptr)
    ELSE x

\* SET_(type, conv, p, name1, name2, ...) (part_002:71-77, 148-152): the
\* setter is called with the converted payload; a wrong alternative throws
SET_(d, st, value) ==
    IF value.tag # d.kind THEN st ELSE [st EXCEPT ![d.p] = conv(d, value.v)]

\* PROPERTY_CLASS::setProperty (part_002:154-161); BaseObject's throws
RECURSIVE setProperty(_, _, _, _)
setProperty(cls, st, property, value) ==
    IF \E d \in PROPERTY_LIST(cls) : d.p = property
    THEN SET_(CHOOSE d \in PROPERTY_LIST(cls) : d.p = property, st, value)
    ELSE IF cls \in PropertyClasses
         THEN setProperty(PROPERTY_BASE(cls), st, property, value)
         ELSE st

\* a call of setProperty on an object of the class with a value that
\* validateProperty has accepted: the setter of the property receives the
\* converted payload and stores it
SetValidated ==
    /\ vp_result.done
    /\ vp_result.rc = "ok"
    /\ ~vp_result.set.called
    /\ LET st0 == [p \in PropertyIds |-> vp_state]
           st1 == setProperty(vp_call.cls, st0, vp_call.property,
                              vp_call.value)
       IN  /\ vp_state' = st1[vp_call.property]
           /\ vp_result' = [vp_result EXCEPT
                               !.set = [called |-> TRUE,
                                        arg |-> st1[vp_call.property]]]
    /\ UNCHANGED <<vp_call, bqvars, ctxvars>>

\* GET_CONV_ (part_002:51-59) under PROPERTY_CLASS::getProperty
\* (part_002:112-119): the getter's value in the declared alternative
RECURSIVE getProperty(_, _, _)
getProperty(cls, st, property) ==
    IF \E d \in PROPERTY_LIST(cls) : d.p = property
    THEN [tag |-> (CHOOSE d \in PROPERTY_LIST(cls) : d.p = property).kind,
          v |-> st[property]]
    ELSE IF cls \in PropertyClasses
         THEN getProperty(PROPERTY_BASE(cls), st, property)
         ELSE NoVal

\* weak_vector::contains(v, x): some element of v locks to x
weak_vector_contains(v, x) ==
    \E i \in DOMAIN v : v[i] = x /\ x \in gen_alive

\* Source::hasGenerator (biquad.cpp:200-202)
hasGenerator(gens, g) == weak_vector_contains(gens, g)

\* addGenerator without the test of hasGenerator
addGenerator_NoCheck(gens, g) == Append(gens, g)

\* Source::addGenerator (biquad.cpp:181-184)
addGenerator(gens, g) ==
    IF hasGenerator(gens, g) THEN gens ELSE Append(gens, g)

\* removeGenerator without the swap: the last element is dropped
removeGenerator_NoSwap(gens, g) ==
    IF gens = <<>> THEN gens
    ELSE IF ~hasGenerator(gens, g) THEN gens
    ELSE SubSeq(gens, 1, Len(gens) - 1)

\* removeGenerator without the resize: the generator is swapped to the end
removeGenerator_NoResize(gens, g) ==
    IF gens = <<>> THEN gens
    ELSE IF ~hasGenerator(gens, g) THEN gens
    ELSE LET index == CHOOSE i \in DOMAIN gens : gens[i] = g
             last == Len(gens)
         IN  [gens EXCEPT ![last] = gens[index], ![index] = gens[last]]

\* Source::removeGenerator (biquad.cpp:186-198)
removeGenerator(gens, g) ==
    IF gens = <<>> THEN gens
    ELSE IF ~hasGenerator(gens, g) THEN gens
    ELSE LET index == CHOOSE i \in DOMAIN gens :
                        /\ gens[i] = g
                        /\ \A j \in 1..(i - 1) : gens[j] # g
             last == Len(gens)
             swapped == [gens EXCEPT ![last] = gens[index],
                                     ![index] = gens[last]]
         IN  SubSeq(swapped, 1, last - 1)

\* Generator::getChannels of each generator
getChannels(g) == IF g = "g1" THEN 1 ELSE 2

\* getBlockTime with the increment of the block under way already counted
getBlockTime_Ahead == block_time + 1

\* Context::getBlockTime (part_003:215-217)
getBlockTime == block_time

\* iterate_removing leaving the expired references in v
iterate_removing_KeepExpired(v) == v

\* weak_vector::iterate_removing(v, f): the expired references leave v and
\* f is called on every other element
iterate_removing(v) == SelectSeq(v, LAMBDA g : g \in gen_alive)

\* Pausable::isPaused of the source
isPaused == paused

\* what a source's block may hold when fillBlock is entered: silence, or
\* the audio of an earlier block
stale(channels) == [i \in 1..(channels * BlockLen) |-> 1]
PriorBlocks(channels) ==
    {[i \in 1..(channels * BlockLen) |-> 0], stale(channels)}

\* one thing fillBlock does to a buffer: op is what is done, g the generator
\* it is done for ("none" when for none), buf the buffer written, n a count
Step(op, g, buf, n) == [op |-> op, g |-> g, buf |-> buf, n |-> n]

\* the callback of iterate_removing without the test for no channels
generatorSteps_NoZeroTest(g, nch, channels) ==
    IF nch = channels
    THEN <<Step("run", g, "block", nch)>>
    ELSE <<Step("fill", g, "premix", BlockLen * nch),
           Step("run", g, "premix", nch),
           Step("mixChannels", g, "block", nch)>>

\* The callback fillBlock gives iterate_removing (biquad.cpp:228-242), for
\* a generator g of nch channels and a source of `channels` channels
generatorSteps(g, nch, channels) ==
    IF nch = 0 THEN <<>>
    ELSE IF nch = channels
         THEN <<Step("run", g, "block", nch)>>
         ELSE <<Step("fill", g, "premix", BlockLen * nch),
                Step("run", g, "premix", nch),
                Step("mixChannels", g, "block", nch)>>

\* the callback called on every element of v in turn
RECURSIVE runGenerators(_, _, _)
runGenerators(v, nch, channels) ==
    IF v = <<>> THEN <<>>
    ELSE generatorSteps(Head(v), nch[Head(v)], channels)
         \o runGenerators(Tail(v), nch, channels)

\* the generators a sequence of steps calls run on
ranIn(steps) == {steps[i].g : i \in {j \in DOMAIN steps : steps[j].op = "run"}}

\* what fillBlock does before it tests isPaused (biquad.cpp:215)
zeroSteps(channels) == <<Step("fill", "none", "block", channels * BlockLen)>>

\* fillBlock's steps after the test of isPaused, with the gain applied
\* before the generators run
renderSteps_GainFirst(genSteps, channels) ==
    <<Step("tickPausable", "none", "none", 1),
      Step("gain", "none", "block", channels * BlockLen)>>
    \o genSteps
    \o <<Step("routeAudio", "none", "block", channels)>>

\* fillBlock's steps after the test of isPaused (biquad.cpp:225-253):
\* tickPausable, the generators, the gain fader over every sample of every
\* channel, routeAudio
renderSteps(genSteps, channels) ==
    <<Step("tickPausable", "none", "none", 1)>>
    \o genSteps
    \o <<Step("gain", "none", "block", channels * BlockLen),
         Step("routeAudio", "none", "block", channels)>>

\* fillBlock testing isPaused only after the generators have run
fillBlock_PausedLate(gens, channels, block, nch) ==
    LET kept == iterate_removing(gens)
        steps == zeroSteps(channels) \o runGenerators(kept, nch, channels)
    IN  [generators |-> kept, ran |-> ranIn(steps), ticked |-> ~isPaused,
         routed |-> ~isPaused, time |-> getBlockTime, paused |-> isPaused,
         steps |-> steps,
         block |-> [i \in DOMAIN block |-> Cardinality(ranIn(steps))]]

\* Source::fillBlock(channels) (biquad.cpp:204-254) on a block holding
\* `block`, with nch[g] what g->getChannels() returns: the generator list
\* it leaves, the steps it takes, the generators whose run it called, the
\* block it leaves and whether it routed it.  Every generator that runs
\* adds one unit to every entry; the gain fader is taken at the value of
\* the gain property.
fillBlock(gens, channels, block, nch) ==
    LET zeroed == [i \in DOMAIN block |->
                     IF i <= channels * BlockLen THEN 0 ELSE block[i]]
    IN
    IF isPaused
    THEN [generators |-> gens, ran |-> {}, ticked |-> FALSE,
          routed |-> FALSE, time |-> getBlockTime, paused |-> TRUE,
          steps |-> zeroSteps(channels),
          block |-> zeroed]
    ELSE LET kept == iterate_removing(gens)
             steps == zeroSteps(channels)
                      \o renderSteps(runGenerators(kept, nch, channels),
                                      channels)
             ran == ranIn(steps)
         IN
         [generators |-> kept, ran |-> ran,
          ticked |-> \E i \in DOMAIN steps : steps[i].op = "tickPausable",
          routed |-> \E i \in DOMAIN steps : steps[i].op = "routeAudio",
          time |-> getBlockTime,
          paused |-> FALSE,
          steps |-> steps,
          block |-> [i \in DOMAIN block |->
                       (zeroed[i] + Cardinality(ran))
                       * props[Source]["SYZ_P_GAIN"]]]

(***************************************************************************)
(* Context: deferred deletion (part_003:194-208, 297-321).  The iteration  *)
(* of the context is its block_time.                                       *)
(***************************************************************************)
\* the objects made by createObject whose release is followed
Objs == {"a", "b"}

\* the deleter with the test of delete_directly inverted
deleter_Inverted(flag) ==
    IF flag = 0 THEN <<"delete">> ELSE <<"enqueueDeletionRecord">>

\* the deleter with its else lost: the object is enqueued and deleted
deleter_NoElse(flag) ==
    IF flag = 0 THEN <<"enqueueDeletionRecord", "delete">> ELSE <<"delete">>

\* The deleter createObject gives the shared_ptr (part_003:197-201): what it
\* does, having read delete_directly
deleter(flag) ==
    IF flag = 0 THEN <<"enqueueDeletionRecord">> ELSE <<"delete">>

\* deletionCallback<T>(p) or delete ptr: the destructor of o runs
Destroyed(r, how) ==
    [r EXCEPT !.dtors = @ + 1, !.how = how, !.dtor_bt = block_time,
              !.dtor_run = (sd = "run")]

\* the deleter has finished one of the things it does
AfterAction(r) ==
    [r EXCEPT !.todo = Tail(@),
              !.pc = IF Tail(r.todo) = <<>> THEN "done" ELSE "deleter"]

\* The last owning reference to o is dropped on some external thread: the
\* deleter starts and loads delete_directly (part_003:198-199)
DropLastReference(o) ==
    /\ rel[o].pc = "held"
    /\ rel' = [rel EXCEPT ![o].pc = "deleter",
                          ![o].todo = deleter(delete_directly)]
    /\ UNCHANGED <<pending_deletes, delete_directly, deletes_in_progress, sd,
                   headless, running, block_time, apc, pipevars, bqvars,
                   vpvars>>

\* The deleter acts: delete ptr (part_003:200), or the call of
\* enqueueDeletionRecord (part_003:199), which enters the enqueue critical
\* region by incrementing deletes_in_progress
DeleterStep(o) ==
    /\ rel[o].pc = "deleter"
    /\ IF Head(rel[o].todo) = "delete"
       THEN /\ rel' = [rel EXCEPT ![o] = AfterAction(Destroyed(@, "direct"))]
            /\ UNCHANGED deletes_in_progress
       ELSE /\ deletes_in_progress' = deletes_in_progress + 1
            /\ rel' = [rel EXCEPT ![o].pc = "enqueue"]
    /\ UNCHANGED <<pending_deletes, delete_directly, sd, headless, running,
                   block_time, apc, pipevars, bqvars, vpvars>>

\* Context::enqueueDeletionRecord(cb, arg) inside its critical region: after
\* shutdown it destroys at once, otherwise it stamps the record with the
\* current iteration + 1 and pushes it
enqueueDeletionRecord(o) ==
    IF delete_directly = 1
    THEN /\ rel' = [rel EXCEPT ![o] = [Destroyed(@, "inline") EXCEPT
                                          !.pc = "leave"]]
         /\ UNCHANGED pending_deletes
    ELSE /\ pending_deletes' = Append(pending_deletes,
                                 [obj |-> o, iteration |-> block_time + 1])
         /\ rel' = [rel EXCEPT ![o].pc = "leave",
                               ![o].stamp = block_time + 1,
                               ![o].enq_bt = block_time,
                               ![o].age = 0]

EnqueueDeletionRecord(o) ==
    /\ rel[o].pc = "enqueue"
    /\ enqueueDeletionRecord(o)
    /\ UNCHANGED <<delete_directly, deletes_in_progress, sd, headless,
                   running, block_time, apc, pipevars, bqvars, vpvars>>

\* enqueueDeletionRecord leaving without the decrement
LeaveEnqueue_NoDecrement(o) ==
    /\ rel[o].pc = "leave"
    /\ rel' = [rel EXCEPT ![o] = AfterAction(@)]
    /\ UNCHANGED <<pending_deletes, delete_directly, deletes_in_progress, sd,
                   headless, running, block_time, apc, pipevars, bqvars,
                   vpvars>>

\* enqueueDeletionRecord leaves its critical region
LeaveEnqueue(o) ==
    /\ rel[o].pc = "leave"
    /\ deletes_in_progress' = deletes_in_progress - 1
    /\ rel' = [rel EXCEPT ![o] = AfterAction(@)]
    /\ UNCHANGED <<pending_deletes, delete_directly, sd, headless, running,
                   block_time, apc, pipevars, bqvars, vpvars>>

\* how many records of the sequence q name o
RECURSIVE Records(_, _)
Records(q, o) ==
    IF q = <<>> THEN 0
    ELSE (IF Head(q).obj = o THEN 1 ELSE 0) + Records(Tail(q), o)

\* the callbacks of the records q have all been called
RunRecords(q, how) ==
    [o \in Objs |->
        IF Records(q, o) = 0 THEN rel[o]
        ELSE [Destroyed(rel[o], how) EXCEPT
                 !.dtors = rel[o].dtors + Records(q, o)]]

\* Context::shutdown (part_003:164-169): the audio thread is stopped, ...
ShutdownStopAudio ==
    /\ sd = "run"
    /\ apc = "idle"
    /\ running' = 0
    /\ sd' = "flag"
    /\ UNCHANGED <<pending_deletes, delete_directly, deletes_in_progress, rel,
                   headless, block_time, apc, pipevars, bqvars, vpvars>>

\* ... delete_directly is set, ...
ShutdownSetFlag ==
    /\ sd = "flag"
    /\ delete_directly' = 1
    /\ sd' = "spin"
    /\ UNCHANGED <<pending_deletes, deletes_in_progress, rel, headless,
                   running, block_time, apc, pipevars, bqvars, vpvars>>

\* ... shutdown spins until deletes_in_progress is 0, ...
ShutdownSpin ==
    /\ sd = "spin"
    /\ deletes_in_progress = 0
    /\ sd' = "drain"
    /\ UNCHANGED <<pending_deletes, delete_directly, deletes_in_progress, rel,
                   headless, running, block_time, apc, pipevars, bqvars,
                   vpvars>>

\* ... and drainDeletionQueues runs every record, whatever its iteration
ShutdownDrain ==
    /\ sd = "drain"
    /\ rel' = RunRecords(pending_deletes, "shutdown")
    /\ pending_deletes' = <<>>
    /\ sd' = "done"
    /\ UNCHANGED <<delete_directly, deletes_in_progress, headless, running,
                   block_time, apc, pipevars, bqvars, vpvars>>

(***************************************************************************)
(* Context::generateAudio (part_003:281): one block.  Its body is the      *)
(* per-block sequence of section 4.I of the specification: flush the       *)
(* property ring, run the queued commands, have the sources fill their     *)
(* blocks, advance block_time, drain the deletion queue.                   *)
(***************************************************************************)
\* blocks that are rendered
MaxBlocks == 2
\* calls the external threads make, all together
MaxOps == 3

\* generateAudio running the commands before it flushes the ring
generateAudioOrder_CommandsFirst ==
    <<"commands", "flush", "sources", "tick", "drain">>

\* the steps of generateAudio, in order
generateAudioOrder == <<"flush", "commands", "sources", "tick", "drain">>

StepAfter(step) ==
    LET i == CHOOSE k \in DOMAIN generateAudioOrder :
                 generateAudioOrder[k] = step
    IN  IF i = Len(generateAudioOrder) THEN "idle"
        ELSE generateAudioOrder[i + 1]

\* the steps in which the block is being rendered
Rendering == {"sources", "tick"}

\* the properties whose writes and reads are followed
Watched == {<<Source, "SYZ_P_GAIN">>}

blk0 == [pend |-> 0, applied |-> 0, cmds |-> 0, fills |-> FALSE,
         bad |-> FALSE, ran |-> {}, added |-> {}, addrem |-> {},
         raced |-> FALSE, time |-> 0, paused |-> FALSE, routed |-> FALSE,
         block |-> <<>>, ticked |-> FALSE, steps |-> <<>>, channels |-> 0,
         nch |-> <<>>, before |-> <<>>, alive |-> {},
         op |-> [kind |-> "none", obj |-> "none", had |-> FALSE,
                 before |-> <<>>, after |-> <<>>]]

\* call n of thread t, a write ("w") or a command ("c"), takes effect on the
\* audio thread
Observe(o, t, n, kind) ==
    [o EXCEPT !.w[t] = IF kind = "w" THEN n ELSE @,
              !.c[t] = IF kind = "c" THEN n ELSE @,
              !.kind_broken = @ \/ (IF kind = "w" THEN n < o.w[t]
                                                  ELSE n < o.c[t]),
              !.cross_broken = @ \/ n < o.w[t] \/ n < o.c[t]]

\* flushPropertyWrites taking the newest write first
RECURSIVE flushPropertyWrites_Reversed(_, _)
flushPropertyWrites_Reversed(ps, ring) ==
    IF ring = <<>> THEN [props |-> ps.props, ord |-> ps.ord]
    ELSE LET e == ring[Len(ring)] IN
         flushPropertyWrites_Reversed(
            [props |-> [ps.props EXCEPT ![e.obj] =
                          setProperty(ClassOf(e.obj), @, e.property, e.value)],
             ord |-> Observe(ps.ord, e.t, e.n, "w")],
            SubSeq(ring, 1, Len(ring) - 1))

\* Context::flushPropertyWrites (part_003:287-290): every write in the ring
\* is popped, oldest first, and setProperty is called on its target
RECURSIVE flushPropertyWrites(_, _)
flushPropertyWrites(ps, ring) ==
    IF ring = <<>> THEN [props |-> ps.props, ord |-> ps.ord]
    ELSE LET e == Head(ring) IN
         flushPropertyWrites(
            [props |-> [ps.props EXCEPT ![e.obj] =
                          setProperty(ClassOf(e.obj), @, e.property, e.value)],
             ord |-> Observe(ps.ord, e.t, e.n, "w")],
            Tail(ring))

\* generateAudio is entered
BeginBlock ==
    /\ apc = "idle"
    /\ running = 1
    /\ block_time < MaxBlocks
    /\ apc' = generateAudioOrder[1]
    /\ blk' = [blk0 EXCEPT !.pend = Len(property_ring)]
    /\ rel' = [o \in Objs |->
                 IF rel[o].age = 0 THEN [rel[o] EXCEPT !.age = 1] ELSE rel[o]]
    /\ wr' = [k \in Watched |->
                 IF wr[k].stage = 0 THEN [wr[k] EXCEPT !.stage = 1] ELSE wr[k]]
    /\ UNCHANGED <<headless, running, block_time, pending_deletes,
                   delete_directly, deletes_in_progress, sd, property_ring,
                   pending_invokables, props, generators, gen_alive, paused,
                   thr, ord, bqvars, vpvars>>

\* step 1: the property ring is flushed
FlushPropertyWrites ==
    /\ apc = "flush"
    /\ LET r == flushPropertyWrites([props |-> props, ord |-> ord],
                                    property_ring)
       IN  /\ props' = r.props
           /\ ord' = r.ord
    /\ blk' = [blk EXCEPT !.applied = @ + Len(property_ring),
                          !.bad = @ \/ (property_ring # <<>>
                                          /\ (blk.cmds > 0 \/ blk.fills))]
    /\ property_ring' = <<>>
    /\ apc' = StepAfter("flush")
    /\ UNCHANGED <<headless, running, block_time, delvars,
                   pending_invokables, generators, gen_alive, paused, thr, wr,
                   bqvars, vpvars>>

\* a queued command is invoked: the callback of syz_sourceAddGenerator
\* (biquad.cpp:265-267), of syz_sourceRemoveGenerator (biquad.cpp:276-278),
\* or the getter of a waiting Context::call (part_003:189-191)
Execute(c) ==
    /\ generators' =
         CASE c.kind = "add" -> addGenerator(generators, c.obj)
           [] c.kind = "remove" -> removeGenerator(generators, c.obj)
           [] OTHER -> generators
    /\ thr' = CASE c.kind = "get" ->
                     [thr EXCEPT ![c.t].pc = "idle",
                                 ![c.t].runs = @ + 1,
                                 ![c.t].val = getProperty(ClassOf(c.obj),
                                                props[c.obj], c.property)]
                [] c.kind = "init" ->
                     [thr EXCEPT ![c.t].pc = "idle", ![c.t].runs = @ + 1]
                [] OTHER -> thr
    /\ ord' = Observe(ord, c.t, c.n, "c")
    /\ blk' = [blk EXCEPT
         !.op = IF c.kind \in {"add", "remove"}
                THEN [kind |-> c.kind, obj |-> c.obj,
                      had |-> hasGenerator(generators, c.obj),
                      before |-> generators, after |-> generators']
                ELSE @,
         !.cmds = 1,
         !.bad = @ \/ blk.fills \/ blk.applied < blk.pend,
         !.added = CASE c.kind = "add" /\ ~hasGenerator(generators, c.obj)
                          -> @ \cup {c.obj}
                     [] c.kind = "remove" -> @ \ {c.obj}
                     [] OTHER -> @,
         !.addrem = CASE c.kind = "add" -> @ \ {c.obj}
                      [] c.kind = "remove" /\ c.obj \in blk.added
                          -> @ \cup {c.obj}
                      [] OTHER -> @]

\* step 2: the command queue is drained, each producer's commands in the
\* order it enqueued them
RunCommands ==
    /\ apc = "commands"
    /\ IF \A t \in Threads : pending_invokables[t] = <<>>
       THEN /\ apc' = StepAfter("commands")
            /\ UNCHANGED <<pending_invokables, generators, thr, ord, blk>>
       ELSE /\ \E t \in Threads :
                 /\ pending_invokables[t] # <<>>
                 /\ Execute(Head(pending_invokables[t]))
                 /\ pending_invokables' =
                      [pending_invokables EXCEPT ![t] = Tail(@)]
            /\ UNCHANGED apc
    /\ UNCHANGED <<headless, running, block_time, delvars, property_ring,
                   props, gen_alive, paused, wr, bqvars, vpvars>>

\* steps 3-7: the block is rendered; every source fills its block
FillSourcesWith(channels, nch) ==
    /\ apc = "sources"
    /\ \E prior \in PriorBlocks(channels) :
         LET r == fillBlock(generators, channels, prior, nch)
         IN  /\ generators' = r.generators
             /\ blk' = [blk EXCEPT !.fills = TRUE, !.ran = r.ran,
                                   !.time = r.time, !.paused = r.paused,
                                   !.routed = r.routed, !.block = r.block,
                                   !.ticked = r.ticked, !.steps = r.steps,
                                   !.channels = channels, !.nch = nch,
                                   !.before = generators,
                                   !.alive = gen_alive]
    /\ apc' = StepAfter("sources")
    /\ UNCHANGED <<headless, running, block_time, delvars, property_ring,
                   pending_invokables, props, gen_alive, paused, thr, wr, ord,
                   bqvars, vpvars>>

\* the source of the pipeline: one channel, generators of fixed channels
FillSources == FillSourcesWith(1, [g \in Gens |-> getChannels(g)])

\* the last shared_ptr to generator g goes away: the weak references to it
\* expire.  A queued command holds a reference to its generator.
Expire(g) ==
    /\ g \in gen_alive
    /\ \A t \in Threads : \A i \in DOMAIN pending_invokables[t] :
          pending_invokables[t][i].obj # g
    /\ gen_alive' = gen_alive \ {g}
    /\ UNCHANGED <<headless, running, block_time, apc, delvars,
                   property_ring, pending_invokables, props, generators,
                   paused, thr, wr, ord, blk, bqvars, vpvars>>

\* Pausable::pause / play of the source taking effect: isPaused changes
SetPaused(p) ==
    /\ paused # p
    /\ paused' = p
    /\ UNCHANGED <<headless, running, block_time, apc, delvars,
                   property_ring, pending_invokables, props, generators,
                   gen_alive, thr, wr, ord, blk, bqvars, vpvars>>

\* step 8: block_time advances
Tick ==
    /\ apc = "tick"
    /\ block_time' = block_time + 1
    /\ rel' = [o \in Objs |->
                 IF rel[o].age = 1 THEN [rel[o] EXCEPT !.age = 2] ELSE rel[o]]
    /\ apc' = StepAfter("tick")
    /\ UNCHANGED <<headless, running, pending_deletes, delete_directly,
                   deletes_in_progress, sd, pipevars, bqvars, vpvars>>

\* step 9: Context::drainDeletionQueues (part_003:321) runs the records
\* whose iteration is before the current one
DrainDeletes ==
    /\ apc = "drain"
    /\ LET due == SelectSeq(pending_deletes,
                            LAMBDA r : r.iteration < block_time)
       IN  /\ rel' = RunRecords(due, "audio")
           /\ pending_deletes' =
                SelectSeq(pending_deletes,
                          LAMBDA r : ~(r.iteration < block_time))
    /\ wr' = [k \in Watched |->
                 IF wr[k].stage = 1 THEN [wr[k] EXCEPT !.stage = 2] ELSE wr[k]]
    /\ apc' = StepAfter("drain")
    /\ blk' = blk0
    /\ UNCHANGED <<headless, running, block_time, delete_directly,
                   deletes_in_progress, sd, property_ring, pending_invokables,
                   props, generators, gen_alive, paused, thr, ord, bqvars,
                   vpvars>>

(***************************************************************************)
(* The calls of the external threads.                                      *)
(***************************************************************************)
\* the property writes that are tried: valid ones, one out of range, one of
\* the wrong alternative, one naming an object of the wrong class
TriedWrites ==
    {[obj |-> Source, property |-> "SYZ_P_GAIN",
      value |-> [tag |-> "double", v |-> 0]],
     [obj |-> Source, property |-> "SYZ_P_GAIN",
      value |-> [tag |-> "double", v |-> 2]],
     [obj |-> Source, property |-> "SYZ_P_GAIN",
      value |-> [tag |-> "double", v |-> -1]],
     [obj |-> Source, property |-> "SYZ_P_GAIN",
      value |-> [tag |-> "int", v |-> 1]],
     [obj |-> "g1", property |-> "SYZ_P_BUFFER",
      value |-> [tag |-> "object", v |-> 3]]}

\* the writes among them that are in range and of the declared alternative
AcceptedWrites ==
    {w \in TriedWrites : w.value.tag = "double" /\ w.value.v >= 0}

\* the writes that fail validation, by the declared kinds and ranges
RejectedWrites == TriedWrites \ AcceptedWrites

\* the calls the external threads have made so far
OpsMade == thr["t1"].n + thr["t2"].n

\* Context::call running the callable on the caller's thread in every mode
call_AlwaysDirect(hl) == "direct"

\* Context::call with the test of headless inverted
call_Inverted(hl) == IF hl THEN "enqueue" ELSE "direct"

\* Context::call (part_003:181-192): in headless mode the callable runs
\* at once on the caller's thread, otherwise it is enqueued and waited for
call(hl) == IF hl THEN "direct" ELSE "enqueue"

\* Context::set*Property / propertySetter (part_003:226-235, 323-325): the
\* write is validated on the calling thread and, if valid, pushed to the ring
SetProperty(t, w) ==
    /\ thr[t].pc = "idle"
    /\ OpsMade < MaxOps
    /\ LET rc == validateProperty(ClassOf(w.obj), w.property, w.value)
           n  == thr[t].n + 1
           k  == <<w.obj, w.property>>
       IN  /\ property_ring' =
                IF rc = "ok"
                THEN Append(property_ring,
                            [obj |-> w.obj, property |-> w.property,
                             value |-> w.value, t |-> t, n |-> n])
                ELSE property_ring
           /\ thr' = [u \in Threads |->
                IF u = t
                THEN [pc |-> "idle", n |-> n, kind |-> "set", key |-> k,
                      invalid |-> w \in RejectedWrites,
                      rc |-> rc, val |-> NoVal, expect |-> NoVal,
                      rej |-> thr[t].rej \/ rc # "ok", runs |-> 0]
                ELSE IF rc = "ok" /\ thr[u].pc = "wait"
                        /\ thr[u].key = k
                     THEN [thr[u] EXCEPT !.expect = NoVal]
                     ELSE thr[u]]
           /\ wr' = IF rc = "ok" /\ k \in Watched
                    THEN [wr EXCEPT ![k] = [v |-> w.value, stage |-> 0]]
                    ELSE wr
    /\ UNCHANGED <<headless, running, block_time, apc, delvars,
                   pending_invokables, props, generators, gen_alive, paused,
                   ord, blk, bqvars, vpvars>>

\* Context::get*Property (part_003:226-234): the getter goes through call
GetProperty(t, k) ==
    /\ thr[t].pc = "idle"
    /\ OpsMade < MaxOps
    /\ LET n == thr[t].n + 1
           expect == IF wr[k].stage = 2 THEN wr[k].v ELSE NoVal
           me == [pc |-> "idle", n |-> n, kind |-> "get",
                  key |-> k, invalid |-> FALSE,
                  rc |-> "ok", val |-> NoVal, expect |-> expect,
                  rej |-> thr[t].rej, runs |-> 0]
       IN  IF call(headless) = "direct"
           THEN /\ thr' = [thr EXCEPT ![t] =
                     [me EXCEPT !.val = getProperty(ClassOf(k[1]),
                                                    props[k[1]], k[2]),
                                !.runs = 1]]
                /\ blk' = [blk EXCEPT !.raced = @ \/ apc \in Rendering]
                /\ UNCHANGED pending_invokables
           ELSE /\ thr' = [thr EXCEPT ![t] = [me EXCEPT !.pc = "wait"]]
                /\ pending_invokables' =
                     [pending_invokables EXCEPT ![t] =
                        Append(@, [kind |-> "get", obj |-> k[1],
                                   property |-> k[2], t |-> t, n |-> n])]
                /\ UNCHANGED blk
    /\ UNCHANGED <<headless, running, block_time, apc, delvars,
                   property_ring, props, generators, gen_alive, paused, wr,
                   ord, bqvars, vpvars>>

\* Context::createObject (part_003:194-208): the object is made, and its
\* second phase of initialization, initInAudioThread, goes through call;
\* createObject returns when call has returned.  runs counts the runs of
\* initInAudioThread for the object of this call.
createObject(t) ==
    /\ thr[t].pc = "idle"
    /\ OpsMade < MaxOps
    /\ LET n == thr[t].n + 1
           me == [pc |-> "idle", n |-> n, kind |-> "create",
                  key |-> <<Source, "none">>, invalid |-> FALSE,
                  rc |-> "ok", val |-> NoVal, expect |-> NoVal,
                  rej |-> thr[t].rej, runs |-> 0]
       IN  IF call(headless) = "direct"
           THEN /\ thr' = [thr EXCEPT ![t] = [me EXCEPT !.runs = 1]]
                /\ blk' = [blk EXCEPT !.raced = @ \/ apc \in Rendering]
                /\ UNCHANGED pending_invokables
           ELSE /\ thr' = [thr EXCEPT ![t] = [me EXCEPT !.pc = "wait"]]
                /\ pending_invokables' =
                     [pending_invokables EXCEPT ![t] =
                        Append(@, [kind |-> "init", obj |-> "none",
                                   property |-> "none", t |-> t, n |-> n])]
                /\ UNCHANGED blk
    /\ UNCHANGED <<headless, running, block_time, apc, delvars,
                   property_ring, props, generators, gen_alive, paused, wr,
                   ord, bqvars, vpvars>>

\* the handles the C API is called with: of the source, of the generators,
\* and one that was freed
Handles == {"hS", "hg1", "hg2", "hFreed"}

\* the object a handle refers to; a freed handle refers to none
HandleObject(h) ==
    CASE h = "hS" -> Source
      [] h = "hg1" -> "g1"
      [] h = "hg2" -> "g2"
      [] OTHER -> "none"

\* the handle of a graph object
HandleOf(obj) == CHOOSE h \in Handles : HandleObject(h) = obj

\* fromC<cls>(handle): the object behind the handle, cast down to cls; an
\* invalid or freed handle and a handle to an object of another class throw
fromC(cls, h) ==
    IF HandleObject(h) = "none"
    THEN [err |-> "EInvalidHandle", obj |-> "none"]
    ELSE IF ~IsA(ClassOf(HandleObject(h)), cls)
         THEN [err |-> "EHandleType", obj |-> HandleObject(h)]
         ELSE [err |-> "ok", obj |-> HandleObject(h)]

\* the body of the entry points with the generator handle's error ignored
sourceCallOutcome_GeneratorUnchecked(src, gen) ==
    IF src.err # "ok" THEN src.err ELSE "ok"

\* The body of the entry points between SYZ_PROLOGUE and SYZ_EPILOGUE
\* (biquad.cpp:261-268, 272-279): an exception of the first or of the second
\* fromC leaves before the command is enqueued and becomes the error code;
\* otherwise the command is enqueued and 0 is returned
sourceCallOutcome(src, gen) ==
    IF src.err # "ok" THEN src.err
    ELSE IF gen.err # "ok" THEN gen.err
    ELSE "ok"

\* the calls whose handles are not those of a Source and of a Generator
BadHandles(source, generator) ==
    source # "hS" \/ generator \notin {"hg1", "hg2"}

\* syz_sourceAddGenerator / syz_sourceRemoveGenerator (biquad.cpp:260-280):
\* both handles are resolved on the calling thread, then a command that will
\* call addGenerator / removeGenerator is enqueued
SourceCommand(t, kind, source, generator) ==
    /\ thr[t].pc = "idle"
    /\ OpsMade < MaxOps
    /\ LET n == thr[t].n + 1
           src == fromC("Source", source)
           gen == fromC("Generator", generator)
           rc == sourceCallOutcome(src, gen)
       IN
       /\ pending_invokables' =
            IF rc = "ok"
            THEN [pending_invokables EXCEPT ![t] =
                    Append(@, [kind |-> kind, obj |-> gen.obj,
                               property |-> "none", t |-> t, n |-> n])]
            ELSE pending_invokables
       /\ thr' = [thr EXCEPT ![t] =
            [pc |-> "idle", n |-> n, kind |-> kind,
             key |-> <<Source, "none">>,
             invalid |-> BadHandles(source, generator), rc |-> rc,
             val |-> NoVal, expect |-> NoVal,
             rej |-> thr[t].rej, runs |-> 0]]
    /\ UNCHANGED <<headless, running, block_time, apc, delvars,
                   property_ring, props, generators, gen_alive, paused, wr,
                   ord, blk, bqvars, vpvars>>

syz_sourceAddGenerator(t, source, generator) ==
    SourceCommand(t, "add", source, generator)

syz_sourceRemoveGenerator(t, source, generator) ==
    SourceCommand(t, "remove", source, generator)

(***************************************************************************)
(* Specifications.  Each one runs one part of the program and holds the    *)
(* variables of the other parts at their initial values.                   *)
(***************************************************************************)
thr0 == [pc |-> "idle", n |-> 0, kind |-> "none",
         key |-> <<Source, "none">>, invalid |-> FALSE,
         rc |-> "none", val |-> NoVal, expect |-> NoVal, rej |-> FALSE,
         runs |-> 0]

rel0 == [pc |-> "held", todo |-> <<>>, dtors |-> 0, how |-> "none",
         stamp |-> 0, enq_bt |-> 0, age |-> -1, dtor_bt |-> 0,
         dtor_run |-> FALSE]

\* the property values of a new object: gain 1, pitch bend 1, not looping,
\* no buffer
props0 ==
    [o \in GraphObjs |->
        IF o = Source THEN [SYZ_P_GAIN |-> 1]
        ELSE [SYZ_P_PITCH_BEND |-> 1, SYZ_P_BUFFER |-> nullptr,
              SYZ_P_LOOPING |-> 0]]

\* the state after construction; hl: whether the context is headless
StartsAs(hl) ==
    /\ filters = [s \in {0, 1} |-> designWire]
    /\ crossfade = FALSE
    /\ active = 0
    /\ bq_out = silence
    /\ bq_hist = [configured |-> FALSE, calls |-> 0, slot |-> 0, old |-> 0,
                  impl |-> <<>>, ticked |-> {}, cf |-> FALSE,
                  nconf |-> 0, def |-> designWire, add |-> FALSE,
                  in |-> silence, out |-> silence]
    /\ vp_state = 0
    /\ vp_result = [done |-> FALSE, rc |-> "none", before |-> 0,
                    has |-> "none", set |-> [called |-> FALSE, arg |-> 0]]
    /\ headless \in hl
    /\ running = 1
    /\ block_time = 0
    /\ property_ring = <<>>
    /\ pending_invokables = [t \in Threads |-> <<>>]
    /\ pending_deletes = <<>>
    /\ delete_directly = 0
    /\ deletes_in_progress = 0
    /\ apc = "idle"
    /\ sd = "run"
    /\ rel = [o \in Objs |-> rel0]
    /\ props = props0
    /\ generators = <<>>
    /\ gen_alive = Gens
    /\ paused = FALSE
    /\ thr = [t \in Threads |-> thr0]
    /\ wr = [k \in Watched |-> [v |-> NoVal, stage |-> -1]]
    /\ ord = [w |-> [t \in Threads |-> 0], c |-> [t \in Threads |-> 0],
              kind_broken |-> FALSE, cross_broken |-> FALSE]
    /\ blk = blk0

vp_call0 == [cls |-> "Source", property |-> "SYZ_P_GAIN",
             value |-> [tag |-> "double", v |-> 0]]

\* ---- the biquad filter
InitBiquad == StartsAs({FALSE}) /\ vp_call = vp_call0

NextBiquad == Configure \/ ProcessBlock

SpecBiquad == InitBiquad /\ [][NextBiquad]_vars

\* ---- the property dispatcher, on every class, property and value
InitProps ==
    /\ StartsAs({FALSE})
    /\ vp_call \in [cls : PropertyClasses, property : PropertyIds,
                    value : PropertyValues]

NextProps == ValidateProperty \/ HasProperty \/ SetValidated

SpecProps == InitProps /\ [][NextProps]_vars

\* ---- deferred deletion: objects released while blocks are rendered and
\* the context is shut down
InitDel == StartsAs({FALSE}) /\ vp_call = vp_call0

Audio ==
    \/ BeginBlock
    \/ FlushPropertyWrites
    \/ RunCommands
    \/ FillSources
    \/ Tick
    \/ DrainDeletes

NextDel ==
    \/ Audio
    \/ \E o \in Objs : DropLastReference(o)
    \/ \E o \in Objs : DeleterStep(o)
    \/ \E o \in Objs : EnqueueDeletionRecord(o)
    \/ \E o \in Objs : LeaveEnqueue(o)
    \/ ShutdownStopAudio
    \/ ShutdownSetFlag
    \/ ShutdownSpin
    \/ ShutdownDrain

SpecDel == InitDel /\ [][NextDel]_vars

\* the same, every thread that is inside the deleter or inside shutdown
\* being scheduled again and again; nothing obliges a thread to release an
\* object, the context to be shut down, or a block to be rendered
FairDel ==
    /\ \A o \in Objs : WF_vars(DeleterStep(o))
    /\ \A o \in Objs : WF_vars(EnqueueDeletionRecord(o))
    /\ \A o \in Objs : WF_vars(LeaveEnqueue(o))
    /\ WF_vars(ShutdownSetFlag)
    /\ WF_vars(ShutdownSpin)
    /\ WF_vars(ShutdownDrain)

SpecDelFair == InitDel /\ [][NextDel]_vars /\ FairDel

\* ---- the property path: writes from one external thread and reads from
\* both while blocks are rendered, with an audio thread and headless
InitPipe == StartsAs(BOOLEAN) /\ vp_call = vp_call0

NextPipe ==
    \/ Audio
    \/ \E w \in TriedWrites : SetProperty("t1", w)
    \/ \E t \in Threads, k \in Watched : GetProperty(t, k)

SpecPipe == InitPipe /\ [][NextPipe]_vars

\* ---- the command path: one external thread that writes the gain and
\* attaches and detaches generators, and one that attaches generators, while
\* the audio thread renders blocks
InitCmd == StartsAs({FALSE}) /\ vp_call = vp_call0

NextCmd ==
    \/ Audio
    \/ \E w \in AcceptedWrites : SetProperty("t1", w)
    \/ \E t \in Threads, g \in Gens :
          syz_sourceAddGenerator(t, HandleOf(Source), HandleOf(g))
    \/ \E g \in Gens :
          syz_sourceRemoveGenerator("t1", HandleOf(Source), HandleOf(g))

SpecCmd == InitCmd /\ [][NextCmd]_vars

\* ---- the handles of the source calls: one external thread calling with
\* every pair of handles while the audio thread renders blocks
InitHandles == StartsAs({FALSE}) /\ vp_call = vp_call0

NextHandles ==
    \/ Audio
    \/ \E source \in Handles, generator \in Handles :
          syz_sourceAddGenerator("t1", source, generator)
    \/ \E source \in Handles, generator \in Handles :
          syz_sourceRemoveGenerator("t1", source, generator)

SpecHandles == InitHandles /\ [][NextHandles]_vars

\* ---- a source that is paused and resumed while generators are attached
\* to it and blocks are rendered
InitPaused == StartsAs({FALSE}) /\ vp_call = vp_call0

NextPaused ==
    \/ Audio
    \/ \E p \in BOOLEAN : SetPaused(p)
    \/ \E g \in Gens :
          syz_sourceAddGenerator("t1", HandleOf(Source), HandleOf(g))

SpecPaused == InitPaused /\ [][NextPaused]_vars

\* ---- fillBlock of a source of any channel count over generators of any
\* channel counts, which are attached and expire meanwhile
\* most channels of a source or of a generator
MaxChannels == 2

InitFill == StartsAs({FALSE}) /\ vp_call = vp_call0

NextFill ==
    \/ BeginBlock
    \/ FlushPropertyWrites
    \/ RunCommands
    \/ \E channels \in 1..MaxChannels, nch \in [Gens -> 0..MaxChannels] :
          FillSourcesWith(channels, nch)
    \/ Tick
    \/ DrainDeletes
    \/ \E g \in Gens : Expire(g)
    \/ \E g \in gen_alive :
          syz_sourceAddGenerator("t1", HandleOf(Source), HandleOf(g))

SpecFill == InitFill /\ [][NextFill]_vars

\* ---- objects are created from the external threads while blocks are
\* rendered, with an audio thread and headless
InitCreate == StartsAs(BOOLEAN) /\ vp_call = vp_call0

NextCreate ==
    \/ Audio
    \/ \E t \in Threads : createObject(t)

SpecCreate == InitCreate /\ [][NextCreate]_vars

\* ---- the generator list of a source: generators are attached and
\* detached by commands and expire meanwhile
InitGens == StartsAs({FALSE}) /\ vp_call = vp_call0

NextGens ==
    \/ Audio
    \/ \E g \in Gens : Expire(g)
    \/ \E g \in gen_alive :
          syz_sourceAddGenerator("t1", HandleOf(Source), HandleOf(g))
    \/ \E g \in gen_alive :
          syz_sourceRemoveGenerator("t1", HandleOf(Source), HandleOf(g))

SpecGens == InitGens /\ [][NextGens]_vars

(***************************************************************************)
(* Claims.                                                                 *)
(***************************************************************************)

\* C1: an object released while the context is running is not destroyed
\* until at least one full block has been rendered after its deletion
\* record was enqueued: the record is stamped with the iteration at the
\* enqueue + 1, and it is the audio thread's drain that destroys the object,
\* at an iteration strictly greater than the stamp.
C1_DestroyedAfterAFullBlock ==
    /\ \A o \in Objs :
          (rel[o].dtors >= 1 /\ rel[o].dtor_run) =>
              /\ rel[o].how = "audio"
              /\ rel[o].age = 2
              /\ rel[o].stamp = rel[o].enq_bt + 1
              /\ rel[o].dtor_bt > rel[o].stamp
    /\ \A i \in DOMAIN pending_deletes :
          pending_deletes[i].iteration = rel[pending_deletes[i].obj].stamp

\* C1's case: an object released while blocks were rendered has been
\* destroyed by the audio thread's drain, the context still running
C1_Witness ==
    \E o \in Objs :
        /\ rel[o].dtors = 1
        /\ rel[o].how = "audio"
        /\ rel[o].dtor_run
        /\ sd = "run"

\* C2: however the release of an object interleaves with shutdown, its
\* destructor runs at most once, it has run exactly once when both the
\* deleter and shutdown have finished, and no record is then left in the
\* deletion queue.
C2_DestroyedExactlyOnce ==
    /\ \A o \in Objs : rel[o].dtors <= 1
    /\ \A o \in Objs :
          (sd = "done" /\ rel[o].pc = "done") => rel[o].dtors = 1
    /\ (sd = "done" /\ \A o \in Objs : rel[o].pc \in {"held", "done"}) =>
          pending_deletes = <<>>

\* C2's case: shutdown has finished; one object's record was drained by it,
\* and the other object's deleter, having read delete_directly as 0 before
\* shutdown set it, reached enqueueDeletionRecord after the flag was set
C2_Witness ==
    /\ sd = "done"
    /\ rel["a"].how = "shutdown" /\ rel["a"].dtors = 1
    /\ rel["b"].how = "inline" /\ rel["b"].dtors = 1
    /\ rel["b"].pc = "done"

\* C3: a biquad filter crossfades for exactly one block after configure: the
\* first processBlock after configure runs with crossfade set; when it
\* returns crossfade is false and active has flipped to the configured slot,
\* and every later processBlock ticks the newly configured filter alone.
C3_CrossfadeLastsOneBlock ==
    (bq_hist.configured /\ bq_hist.calls >= 1) =>
        /\ crossfade = FALSE
        /\ active = bq_hist.slot
        /\ (bq_hist.calls = 1 => bq_hist.cf)
        /\ (bq_hist.calls >= 2 =>
                ~bq_hist.cf /\ bq_hist.ticked = {bq_hist.slot})

\* the descriptor of property p as an object of class cls sees it
DescriptorOf(cls, p) == CHOOSE d \in AllProperties(cls) : d.p = p

\* C4: validateProperty(id, value) on a class that declares the property
\* fails with PropertyTypeError when the value's tag differs from the declared
\* kind; otherwise with RangeError exactly when an int or double value is
\* below min or above max (both inclusive); with HandleTypeError exactly
\* when an object reference is non-null and not of the required class; and
\* succeeds in every other case.  It leaves the object's state as it was.
C4_ValidateProperty ==
    (vp_result.done
        /\ \E d \in AllProperties(vp_call.cls) : d.p = vp_call.property) =>
    LET d == DescriptorOf(vp_call.cls, vp_call.property)
        val == vp_call.value
        numeric == d.kind \in {"int", "double"}
    IN  /\ (~vp_result.set.called => vp_state = vp_result.before)
        /\ (vp_result.rc = "EPropertyType") <=> (val.tag # d.kind)
        /\ (vp_result.rc = "ERange") <=>
              (val.tag = d.kind /\ numeric
                 /\ ~(d.min <= val.v /\ val.v <= d.max))
        /\ (vp_result.rc = "EHandleType") <=>
              (val.tag = d.kind /\ d.kind = "object" /\ val.v # nullptr
                 /\ ~IsA(ObjectClass[val.v], d.cls))
        /\ vp_result.rc \in {"EPropertyType", "ERange", "EHandleType", "ok"}

\* C4's case: a value equal to the declared maximum has been validated and
\* accepted, on a class that inherits the property
C4_Witness ==
    /\ vp_result.done
    /\ vp_call.cls = "BufferGenerator"
    /\ vp_call.property = "SYZ_P_PITCH_BEND"
    /\ vp_call.value = [tag |-> "double", v |-> 2]
    /\ vp_result.rc = "ok"

\* the values the source's gain may come to hold
AcceptedGains == {1} \cup {w.value.v : w \in AcceptedWrites}

\* C5: a property set whose value fails validation returns an error to its
\* caller, nothing of it is pushed to the property ring, and the property
\* keeps its value: no later get returns the rejected value.
C5_RejectedSetChangesNothing ==
    /\ \A t \in Threads :
          (thr[t].kind = "set" /\ thr[t].invalid) =>
              thr[t].rc \in {"ERange", "EPropertyType", "EHandleType"}
    /\ \A i \in DOMAIN property_ring :
          [obj |-> property_ring[i].obj,
           property |-> property_ring[i].property,
           value |-> property_ring[i].value] \notin RejectedWrites
    /\ props[Source].SYZ_P_GAIN \in AcceptedGains
    /\ props["g1"].SYZ_P_BUFFER = nullptr
    /\ \A t \in Threads :
          (thr[t].kind = "get" /\ thr[t].pc = "idle") =>
              thr[t].val.tag = "double" /\ thr[t].val.v \in AcceptedGains

\* C5's case: a thread whose set was rejected has, a block later, read the
\* gain through the audio thread and got the value the source was made with
C5_Witness ==
    \E t \in Threads :
        /\ ~headless
        /\ thr[t].rej
        /\ thr[t].kind = "get" /\ thr[t].pc = "idle"
        /\ thr[t].val = [tag |-> "double", v |-> 1]
        /\ block_time >= 1

\* C6: in every block all the writes in the property ring are applied, in
\* the order they were pushed, before any command is executed, and the
\* commands are executed before the sources fill their blocks.
C6_WritesThenCommandsThenSources ==
    /\ ~blk.bad
    /\ \A k \in Watched :
          (apc \in {"sources", "tick", "drain"} /\ wr[k].stage = 1) =>
              props[k[1]][k[2]] = wr[k].v.v

\* C6's case: a block in which writes were applied, a command was executed
\* and the source has filled its block
C6_Witness ==
    /\ blk.applied >= 2
    /\ blk.cmds > 0
    /\ blk.fills

\* C7: a get issued after a block has completed that began after a valid
\* write was submitted, and with no later write, returns the written value,
\* with an audio thread and headless.
C7_GetReturnsWrittenValue ==
    \A t \in Threads :
        (thr[t].kind = "get" /\ thr[t].pc = "idle"
            /\ thr[t].expect # NoVal) =>
        thr[t].val = thr[t].expect

\* C7's case: with an audio thread, a get that followed a completed block
\* has returned the value written before that block
C7_Witness ==
    \E t \in Threads :
        /\ ~headless
        /\ thr[t].kind = "get" /\ thr[t].pc = "idle"
        /\ thr[t].expect = [tag |-> "double", v |-> 2]
        /\ thr[t].val = thr[t].expect

C9_NoCallableDuringRendering == ~blk.raced

\* C10: a generator that was not attached, and was added and then removed
\* by commands of one block, is not run by that block's fillBlock and is
\* not in the source's generator list afterwards.
C10_AddedThenRemovedNotRun ==
    \A g \in blk.addrem :
        /\ ~hasGenerator(generators, g)
        /\ g \notin blk.ran

\* C10's case: the first of two generators added in a block was removed in
\* it, and the source has filled its block from the other
C10_Witness ==
    /\ blk.fills
    /\ blk.addrem = {"g1"}
    /\ blk.ran = {"g2"}
    /\ thr["t1"].kind = "remove"

\* C11: block_time is changed by nothing but the block_time step of
\* generateAudio, which adds exactly 1, once in every block; what the source
\* read through getBlockTime in a block is block_time as it was before that
\* block's increment, so one less than what it reads in the next block.
C11_BlockTimeAdvancesByOne ==
    /\ [][/\ (block_time' # block_time) =>
               (apc = "tick" /\ block_time' = block_time + 1)
          /\ (apc = "tick" /\ apc' # "tick") =>
               block_time' = block_time + 1]_vars
    /\ [](blk.fills =>
            blk.time = (IF apc = "tick" THEN block_time ELSE block_time - 1))

\* C11's case: in the second block the source has read the time, and the
\* block's increment has been made
C11_Witness ==
    /\ blk.fills
    /\ blk.time = 1
    /\ block_time = 2

\* C12: hasProperty(id) on a class made by the property implementation is
\* true for every id the class declares and otherwise what its base class's
\* hasProperty returns, so true for every property the class inherits.
C12_HasPropertyChains ==
    (vp_result.has # "none") =>
        ((vp_result.has = "true") <=>
            \E d \in AllProperties(vp_call.cls) : d.p = vp_call.property)

\* C14: while shutdown is at its spin-wait deletes_in_progress comes to be
\* 0, and once shutdown has set delete_directly it completes, if the threads
\* in the deleter and in shutdown keep being scheduled.
C14_SpinWaitTerminates ==
    /\ (sd = "spin") ~> (deletes_in_progress = 0)
    /\ (delete_directly = 1) ~> (sd = "done")

\* C14's case: shutdown is at its spin-wait while both objects' deleters are
\* inside enqueueDeletionRecord
C14_Witness ==
    /\ sd = "spin"
    /\ deletes_in_progress = 2

\* C15: a source call with a handle that is not a Source's, or not a
\* Generator's, or freed, returns an error code; no command of it is in the
\* queue or is ever executed, so the generator list is not changed by it:
\* only generators are ever queued or listed.
C15_BadHandlesEnqueueNothing ==
    /\ \A t \in Threads :
          (thr[t].kind \in {"add", "remove"} /\ thr[t].invalid) =>
              /\ thr[t].rc \in {"EInvalidHandle", "EHandleType"}
              /\ \A i \in DOMAIN pending_invokables[t] :
                    pending_invokables[t][i].n # thr[t].n
              /\ ord.c[t] < thr[t].n
    /\ \A t \in Threads : \A i \in DOMAIN pending_invokables[t] :
          pending_invokables[t][i].obj \in Gens
    /\ \A i \in DOMAIN generators : generators[i] \in Gens

\* C15's case: after a generator was attached, a call naming the source's
\* own handle as the generator has returned HandleTypeError, a block has
\* been rendered since, and the list is as it was
C15_Witness ==
    /\ thr["t1"].kind = "add"
    /\ thr["t1"].invalid
    /\ thr["t1"].rc = "EHandleType"
    /\ thr["t1"].n = 2
    /\ generators = <<"g1">>
    /\ block_time = 2

\* C16: Context::call runs the callable exactly once and returns only after
\* it ran: a call that returned has run once, a call that has not returned
\* has not run and is queued exactly once; in headless mode the callable
\* runs in the step of the call and nothing is queued; otherwise it runs in
\* the audio thread's command step while the caller waits.
C16_CallRunsOnce ==
    /\ [](\A t \in Threads : thr[t].kind = "get" =>
            /\ thr[t].runs <= 1
            /\ (thr[t].pc = "idle") <=> (thr[t].runs = 1)
            /\ headless => (thr[t].pc = "idle" /\ pending_invokables[t] = <<>>)
            /\ Cardinality({i \in DOMAIN pending_invokables[t] :
                              pending_invokables[t][i].n = thr[t].n})
                 = (IF thr[t].pc = "wait" THEN 1 ELSE 0))
    /\ [][\A t \in Threads :
            /\ (thr'[t].n = thr[t].n /\ thr'[t].runs # thr[t].runs) =>
                  (~headless /\ apc = "commands" /\ thr[t].pc = "wait"
                   /\ thr'[t].pc = "idle")
            /\ (thr'[t].n # thr[t].n /\ thr'[t].runs = 1) => headless]_vars

\* C16's case: in threaded mode one caller's callable has run on the audio
\* thread and its call has returned the value while another caller's
\* callable is queued and that caller waits
C16_Witness ==
    /\ ~headless
    /\ thr["t1"].kind = "get" /\ thr["t1"].pc = "idle"
    /\ thr["t1"].runs = 1
    /\ thr["t2"].kind = "get" /\ thr["t2"].pc = "wait"
    /\ thr["t2"].runs = 0

\* the output of the filter in slot s for frame i of the last processBlock,
\* and what the caller's frame held before it
FilterOut(s, i) == tick(filters[s], bq_hist.in[i])
PriorOut(i) == IF bq_hist.add THEN bq_hist.out[i] ELSE 0

\* C17: in the block after configure, frame i (counted from 0) of the
\* output is i/BLOCK_SIZE of the newly configured filter's output plus
\* (1 - i/BLOCK_SIZE) of the previously active filter's output (on top of
\* what the caller's buffer held when adding).
C17_CrossfadeBlend ==
    (bq_hist.configured /\ bq_hist.calls = 1) =>
        \A i \in Frames :
            BlockLen * (bq_out[i] - PriorOut(i)) =
                (i - 1) * FilterOut(bq_hist.slot, i)
                + (BlockLen - (i - 1)) * FilterOut(bq_hist.old, i)

\* C18: processBlock runs the instance of processBlockImpl with ADD = add
\* and CROSSFADING = crossfade; without add and without crossfade the output
\* is the active filter's output and only the active filter is ticked.
C18_FourCombinationsIndependent ==
    (bq_hist.calls >= 1) =>
        /\ bq_hist.impl = <<bq_hist.add, bq_hist.cf>>
        /\ (~bq_hist.add /\ ~bq_hist.cf) =>
              /\ bq_hist.ticked = {active}
              /\ \A i \in Frames : bq_out[i] = FilterOut(active, i)

\* C19: configure writes the parameters to the inactive slot and sets
\* crossfade; the active filter's parameters and the active index stay as
\* they were, and after several configures the inactive slot holds the
\* parameters of the last.
C19_ConfigureWritesInactiveSlot ==
    /\ [][(bq_hist'.calls = 0 /\ bq_hist'.configured) =>
            /\ active' = active
            /\ filters'[active] = filters[active]
            /\ filters'[1 - active] = bq_hist'.def
            /\ crossfade' = TRUE]_vars
    /\ []((bq_hist.calls = 0 /\ bq_hist.configured) =>
            /\ filters[1 - active] = bq_hist.def
            /\ bq_hist.slot = 1 - active
            /\ crossfade)

\* C19's case: two configures without a processBlock between them, the
\* last one's parameters in the inactive slot, the active filter still the
\* wire it was constructed as
C19_Witness ==
    /\ bq_hist.nconf = 2 /\ bq_hist.calls = 0
    /\ bq_hist.def = NumDefs + 1
    /\ filters[1 - active] = NumDefs + 1
    /\ filters[active] = designWire
    /\ crossfade

\* C20: a fillBlock that found the source paused left the first
\* channels * BLOCK_SIZE entries of the block zero, whatever they held
\* before, called run on no generator and routed nothing.
C20_PausedFillIsSilent ==
    (blk.fills /\ blk.paused) =>
        /\ \A i \in DOMAIN blk.block : blk.block[i] = 0
        /\ DOMAIN blk.block = 1..BlockLen
        /\ blk.ran = {}
        /\ ~blk.routed

\* C20's case: in the second block rendered, fillBlock ran on a paused
\* source to which both generators are attached
C20_Witness ==
    /\ blk.fills /\ blk.paused
    /\ Len(generators) = 2
    /\ block_time = 1

\* C21: fillBlock ticks the pausable state once in every call, also when it
\* finds the source paused and returns early.
C21_PausableTickedEveryFill ==
    blk.fills =>
        Cardinality({i \in DOMAIN blk.steps :
                        blk.steps[i].op = "tickPausable"}) = 1

\* how often g is in the list v
Occurrences(v, g) == Cardinality({i \in DOMAIN v : v[i] = g})

\* C22: after a fillBlock on a source that is not paused the generator list
\* holds no reference that had expired when the call began, and every
\* generator that was attached and alive then is in it exactly once.
C22_FillDropsExpiredOnly ==
    (blk.fills /\ ~blk.paused) =>
        /\ \A i \in DOMAIN generators : generators[i] \in blk.alive
        /\ \A g \in blk.alive :
              Occurrences(blk.before, g) >= 1 => Occurrences(generators, g) = 1

\* C22's case: of two attached generators one had expired when fillBlock
\* began; it left the list and the other stayed
C22_Witness ==
    /\ blk.fills /\ ~blk.paused
    /\ Len(blk.before) = 2
    /\ Cardinality(blk.alive) = 1
    /\ Len(generators) = 1

\* the steps of the last fillBlock that were taken for generator g
StepsFor(g) == SelectSeq(blk.steps, LAMBDA st : st.g = g)

\* C23: in a fillBlock on a source of c channels that is not paused, a live
\* attached generator of n channels is not run when n = 0, is run once into
\* the block when n = c, and otherwise has BLOCK_SIZE * n entries of premix
\* zeroed, is run once into premix, and premix is mixed into the block.
C23_GeneratorByChannels ==
    (blk.fills /\ ~blk.paused) =>
        \A g \in Gens :
            LET n == blk.nch[g]
                c == blk.channels
                ev == StepsFor(g)
            IN  (Occurrences(blk.before, g) >= 1 /\ g \in blk.alive) =>
                  /\ (n = 0) => ev = <<>>
                  /\ (n # 0 /\ n = c) =>
                        ev = <<[op |-> "run", g |-> g, buf |-> "block",
                                n |-> n]>>
                  /\ (n # 0 /\ n # c) =>
                        ev = <<[op |-> "fill", g |-> g, buf |-> "premix",
                                n |-> BlockLen * n],
                               [op |-> "run", g |-> g, buf |-> "premix",
                                n |-> n],
                               [op |-> "mixChannels", g |-> g,
                                buf |-> "block", n |-> n]>>

\* C23's case: a source of two channels with a generator of no channels
\* and a generator of one channel attached and alive
C23_Witness ==
    /\ blk.fills /\ ~blk.paused
    /\ blk.channels = 2
    /\ Len(generators) = 2
    /\ blk.nch["g1"] = 0
    /\ blk.nch["g2"] = 1

\* the places in the last fillBlock's steps where op was done
Places(op) == {i \in DOMAIN blk.steps : blk.steps[i].op = op}

\* C24: a fillBlock on a source that is not paused zeroes the block once,
\* first; then runs the generators; then applies the gain to every sample
\* of every channel, once; then routes the block, once and last.
C24_ZeroRunGainRoute ==
    (blk.fills /\ ~blk.paused) =>
        LET zero == {i \in Places("fill") : blk.steps[i].buf = "block"}
            gain == Places("gain")
            route == Places("routeAudio")
            gens == {i \in DOMAIN blk.steps : blk.steps[i].g # "none"}
        IN  /\ zero = {1}
            /\ blk.steps[1].n = blk.channels * BlockLen
            /\ Cardinality(gain) = 1
            /\ \A i \in gain : blk.steps[i].n = blk.channels * BlockLen
            /\ route = {Len(blk.steps)}
            /\ \A i \in gens : \A j \in gain : 1 < i /\ i < j
            /\ \A j \in gain : \A k \in route : j < k

\* C24's case: a fillBlock that ran one generator into the block and the
\* other through premix
C24_Witness ==
    /\ blk.fills /\ ~blk.paused
    /\ blk.ran = Gens
    /\ blk.nch["g1"] = blk.channels
    /\ blk.nch["g2"] # blk.channels

\* the filter's result for frame i of the last processBlock: what the
\* instance that ran leaves in a frame that held nothing
FilterResult(i) ==
    processFrame(bq_hist.impl[1], bq_hist.impl[2], i - 1, bq_hist.in[i], 0)

\* C25: processBlock with add leaves in every frame of out what it held
\* before plus the filter's result; without add it leaves the filter's
\* result alone, whatever out held before.
C25_AddAccumulates ==
    (bq_hist.calls >= 1) =>
        \A i \in Frames :
            bq_out[i] = (IF bq_hist.add THEN bq_hist.out[i] ELSE 0)
                        + FilterResult(i)

\* C26: no generator is in the source's list more than once; addGenerator
\* of a generator that is attached leaves the list as it is, and after
\* removeGenerator the generator is not in the list.
C26_AttachedAtMostOnce ==
    /\ \A g \in Gens : Occurrences(generators, g) <= 1
    /\ (blk.op.kind = "add" /\ blk.op.had) => blk.op.after = blk.op.before
    /\ (blk.op.kind = "add") => Occurrences(blk.op.after, blk.op.obj) = 1
    /\ (blk.op.kind = "remove") => Occurrences(blk.op.after, blk.op.obj) = 0

\* C26's case: addGenerator has run for a generator that was attached, the
\* second of two in the list
C26_Witness ==
    /\ blk.op.kind = "add" /\ blk.op.had
    /\ Len(blk.op.before) = 2
    /\ blk.op.before[2] = blk.op.obj

\* C27: removeGenerator(G) with G attached leaves a list without G that is
\* one entry shorter and holds every other entry, live or expired, as often
\* as before; with G not attached or the list empty it leaves the list as
\* it is.
C27_RemovesExactlyOne ==
    (blk.op.kind = "remove") =>
        IF blk.op.had
        THEN /\ Occurrences(blk.op.after, blk.op.obj) = 0
             /\ Len(blk.op.after) = Len(blk.op.before) - 1
             /\ \A x \in Gens \ {blk.op.obj} :
                   Occurrences(blk.op.after, x) = Occurrences(blk.op.before, x)
        ELSE blk.op.after = blk.op.before

\* C27's case: the first of two entries was removed while the other entry
\* had expired, and the expired entry is what is left
C27_Witness ==
    /\ blk.op.kind = "remove" /\ blk.op.had
    /\ Len(blk.op.before) = 2
    /\ blk.op.before[1] = blk.op.obj
    /\ blk.op.after = <<blk.op.before[2]>>
    /\ blk.op.before[2] \notin gen_alive
    /\ apc = "commands"

\* C28: createObject returns only after the object's initInAudioThread has
\* run, and it runs exactly once for every object: a createObject that has
\* returned has run it once, one that has not returned has not run it and
\* has it queued once; headless it runs in the caller's step, otherwise in
\* the audio thread's command step while the caller waits.
C28_InitBeforeReturn ==
    /\ [](\A t \in Threads : thr[t].kind = "create" =>
            /\ thr[t].runs <= 1
            /\ (thr[t].pc = "idle") <=> (thr[t].runs = 1)
            /\ headless => (thr[t].pc = "idle" /\ pending_invokables[t] = <<>>)
            /\ Cardinality({i \in DOMAIN pending_invokables[t] :
                              pending_invokables[t][i].n = thr[t].n
                              /\ pending_invokables[t][i].kind = "init"})
                 = (IF thr[t].pc = "wait" THEN 1 ELSE 0))
    /\ [][\A t \in Threads : thr'[t].kind = "create" =>
            /\ (thr'[t].n = thr[t].n /\ thr'[t].runs # thr[t].runs) =>
                  (~headless /\ apc = "commands" /\ thr[t].pc = "wait"
                   /\ thr'[t].pc = "idle" /\ thr'[t].runs = 1)
            /\ (thr'[t].n # thr[t].n /\ thr'[t].runs = 1) => headless]_vars

\* C28's case: with an audio thread, one thread's second createObject has
\* returned after its object was initialized while the other thread waits
\* in createObject for the audio thread
C28_Witness ==
    /\ ~headless
    /\ thr["t1"].kind = "create" /\ thr["t1"].pc = "idle"
    /\ thr["t1"].n = 2 /\ thr["t1"].runs = 1
    /\ thr["t2"].kind = "create" /\ thr["t2"].pc = "wait"
    /\ thr["t2"].runs = 0

\* C30: for a property of the object kind a null reference is always valid:
\* validateProperty accepts it whatever class the property requires, and
\* setProperty hands the setter a null reference; a non-null reference
\* reaches the setter only as a reference to the same object, of the
\* required class.
C30_NullObjectAlwaysValid ==
    \A d \in AllProperties(vp_call.cls) :
        (d.p = vp_call.property /\ d.kind = "object"
            /\ vp_call.value.tag = "object") =>
        /\ (vp_result.done /\ vp_call.value.v = nullptr)
              => vp_result.rc = "ok"
        /\ vp_result.set.called =>
              IF vp_call.value.v = nullptr
              THEN vp_result.set.arg = nullptr /\ vp_state = nullptr
              ELSE /\ vp_result.set.arg = vp_call.value.v
                   /\ vp_state = vp_call.value.v
                   /\ IsA(ObjectClass[vp_call.value.v], d.cls)

\* C30's case: a null reference has been validated, accepted and set on
\* the buffer property of a buffer generator
C30_Witness ==
    /\ vp_call.cls = "BufferGenerator"
    /\ vp_call.property = "SYZ_P_BUFFER"
    /\ vp_call.value = [tag |-> "object", v |-> nullptr]
    /\ vp_result.done
    /\ vp_result.rc = "ok"
    /\ vp_result.set.called
    /\ vp_result.set.arg = nullptr

====
